---- MODULE Spec2Model ----
(***************************************************************************)
(* A model of src/quakes.py: the class QuakeQuery, which computes a        *)
(* bounding box at construction and whose query() issues one HTTP GET,     *)
(* parses the pipe-delimited answer, derives the DateTime, Timestamp and   *)
(* Distance columns and keeps the rows inside the radius.                  *)
(*                                                                         *)
(* Python floats are modelled as binary floating-point numbers m * 2^e     *)
(* with a significand of MantissaBits bits, an unbounded exponent and      *)
(* round-to-nearest-even after every operation (an IEEE double has 53      *)
(* bits; TLC's integers have 32, which is what limits the significand).    *)
(***************************************************************************)
EXTENDS Integers, Sequences, FiniteSets, TLC

VARIABLES latitude, longitude, radius, lat_range, lon_range,
          data, logger, sent, received, steps, call, outcome, last_returned

vars == <<latitude, longitude, radius, lat_range, lon_range,
          data, logger, sent, received, steps, call, outcome, last_returned>>

(***************************************************************************)
(* Floating point.                                                         *)
(***************************************************************************)

\* Bits of the significand of a modelled float.
MantissaBits == 11

Pow2(n) == IF n <= 0 THEN 1 ELSE 2 ^ n

\* Number of bits of a natural number (0 for 0).
RECURSIVE BitLen(_)
BitLen(n) ==
    IF n >= 256 THEN 8 + BitLen(n \div 256)
    ELSE IF n >= 16 THEN 4 + BitLen(n \div 16)
    ELSE IF n >= 4 THEN (IF n >= 8 THEN 4 ELSE 3)
    ELSE IF n >= 2 THEN 2 ELSE IF n = 1 THEN 1 ELSE 0

Abs(n) == IF n < 0 THEN -n ELSE n

Sign(n) == IF n < 0 THEN -1 ELSE 1

\* n / 2^s for naturals, rounded to nearest, ties to even.
RoundShift(n, s) ==
    IF s <= 0 THEN n
    ELSE LET q    == n \div Pow2(s)
             r    == n % Pow2(s)
             half == Pow2(s - 1)
         IN  IF r > half \/ (r = half /\ q % 2 = 1) THEN q + 1 ELSE q

FZero == [m |-> 0, e |-> 0]

\* The float nearest to sgn * n * 2^e (n a natural number).
Normalize(sgn, n, e) ==
    IF n = 0 THEN FZero
    ELSE LET bl == BitLen(n)
         IN  IF bl > MantissaBits
             THEN LET s == bl - MantissaBits
                      q == RoundShift(n, s)
                  IN  IF q = Pow2(MantissaBits)
                      THEN [m |-> sgn * Pow2(MantissaBits - 1), e |-> e + s + 1]
                      ELSE [m |-> sgn * q, e |-> e + s]
             ELSE [m |-> sgn * n * Pow2(MantissaBits - bl),
                   e |-> e - (MantissaBits - bl)]

\* float(n) for an integer n, and the float nearest to n / 2^k.
FromInt(n) == Normalize(Sign(n), Abs(n), 0)

FromFix(n, k) == Normalize(Sign(n), Abs(n), -k)

FNeg(a) == [m |-> -a.m, e |-> a.e]

\* a + b: the operands are aligned on the smaller exponent; an operand more
\* than MantissaBits + 2 binary places below the other only decides the
\* rounding direction (a sticky bit).
FAdd(a, b) ==
    IF a.m = 0 THEN b
    ELSE IF b.m = 0 THEN a
    ELSE LET hi == IF a.e >= b.e THEN a ELSE b
             lo == IF a.e >= b.e THEN b ELSE a
             d  == hi.e - lo.e
             k  == IF d > MantissaBits + 2 THEN MantissaBits + 2 ELSE d
             l  == IF d > MantissaBits + 2 THEN Sign(lo.m) ELSE lo.m
             n  == hi.m * Pow2(k) + l
         IN  Normalize(Sign(n), Abs(n), hi.e - k)

FSub(a, b) == FAdd(a, FNeg(b))

FMul(a, b) == Normalize(Sign(a.m) * Sign(b.m), Abs(a.m) * Abs(b.m), a.e + b.e)

\* a / b for b # 0: MantissaBits + 2 quotient bits and a sticky bit for the
\* remainder, then rounded.
FDiv(a, b) ==
    IF a.m = 0 THEN FZero
    ELSE LET n == Abs(a.m) * Pow2(MantissaBits + 2)
             q == n \div Abs(b.m)
             r == n % Abs(b.m)
         IN  Normalize(Sign(a.m) * Sign(b.m),
                       2 * q + (IF r = 0 THEN 0 ELSE 1),
                       a.e - b.e - (MantissaBits + 2) - 1)

\* a < b.  A difference of floats is zero only when they are equal and
\* rounding never changes its sign.
FLess(a, b) == FSub(a, b).m < 0

\* The spacing of the floats at a (0 at 0): one unit in the last place.
Ulp(a) == IF a.m = 0 THEN FZero ELSE [m |-> Pow2(MantissaBits - 1), e |-> a.e - (MantissaBits - 1)]

(***************************************************************************)
(* cos, in fixed point with FixBits fraction bits.                         *)
(***************************************************************************)

\* Half the number of fraction bits of the fixed-point numbers.
HalfBits == 12

FixBits == 2 * HalfBits

FixOne == Pow2(FixBits)

\* The fixed-point value of a float (|a| < 64).
ToFix(a) ==
    IF a.e + FixBits >= 0 THEN a.m * Pow2(a.e + FixBits)
    ELSE Sign(a.m) * RoundShift(Abs(a.m), -(a.e + FixBits))

\* x * y in fixed point for 0 <= x, y < 8, by halves of HalfBits bits so that no
\* product exceeds 32 bits.
FixMul(x, y) ==
    LET h  == Pow2(HalfBits)
        xh == x \div h
        xl == x % h
        yh == y \div h
        yl == y % h
    IN  xh * yh + (xh * yl + xl * yh) \div h + (xl * yl) \div (h * h)

\* cos(x) by its Taylor series in x^2, summed innermost term first:
\* 1 - y/2 (1 - y/12 (1 - y/30 (...))), the k-th factor being y/((2k-1)2k).
RECURSIVE CosSeries(_, _)
CosSeries(y, k) ==
    IF k > 9 THEN FixOne
    ELSE FixOne - FixMul(y, CosSeries(y, k + 1)) \div ((2 * k - 1) * (2 * k))

\* numpy.cos for |a| <= 2: within one unit in the last place.
FCos(a) ==
    LET x == Abs(ToFix(a))
        c == CosSeries(FixMul(x, x), 1)
    IN  FromFix(c, FixBits)

(***************************************************************************)
(* The bounding box (calc_bounding_box).                                   *)
(***************************************************************************)

\* numpy.pi: the float nearest to pi (pi * 2^24 = 52707178.9...).
np_pi == FromFix(52707179, 24)

\* Earth circumference in meters / 360 degrees.
m_per_deg == FDiv(FromInt(40075000), FromInt(360))

\* The latitude half-width in degrees.
DeltaLat(rad) == FDiv(rad, m_per_deg)

\* The longitude half-width: delta /= cos(pi * latitude / 180).
DeltaLon(lat, rad) ==
    FDiv(DeltaLat(rad), FCos(FDiv(FMul(np_pi, lat), FromInt(180))))

\* The latitude range starting at the centre.
LatRange_from_centre(lat, rad) == <<lat, FAdd(lat, DeltaLat(rad))>>

LatRange(lat, rad) == <<FSub(lat, DeltaLat(rad)), FAdd(lat, DeltaLat(rad))>>

LonRange(lat, lon, rad) ==
    <<FSub(lon, DeltaLon(lat, rad)), FAdd(lon, DeltaLon(lat, rad))>>

(***************************************************************************)
(* Texts.  The text of a decimal number is modelled by its digits and the  *)
(* number of digits after the point ("42.5" is digits 425, decimals 1);    *)
(* the text of a time by the second it names, counted from                 *)
(* 1970-01-01T00:00:00, and its fractional digits as nanoseconds.          *)
(***************************************************************************)

Dec(d, k) == [digits |-> d, decimals |-> k]

TimeText(s, f) == [second |-> s, nano |-> f]

Pow10(n) == IF n <= 0 THEN 1 ELSE 10 ^ n

\* float("42.5"): the float nearest to the decimal number.
ParseFloat(t) == FDiv(FromInt(t.digits), FromInt(Pow10(t.decimals)))

\* "%.3f" % x: the decimal with three digits after the point nearest to x.
Format3(x) ==
    LET n == Abs(x.m) * 1000
    IN  Dec(Sign(x.m) * (IF x.e >= 0 THEN n * Pow2(x.e) ELSE RoundShift(n, -x.e)), 3)

Range(seq) == {seq[i] : i \in 1..Len(seq)}

\* The function f itself, held as a table of its values, and the sequence s
\* itself, held as a tuple: TLC evaluates the expression of a function anew
\* each time the function is applied.
Tabulated(f) == f @@ f

AsTuple(s) == SelectSeq(s, LAMBDA x : TRUE)

(***************************************************************************)
(* Data frames: the column names in order, and the rows in order, each a   *)
(* function from the column names to values.                               *)
(***************************************************************************)

DataFrame(cols, rows) == [columns |-> cols, rows |-> rows]

\* The rows with F applied to each (each distinct row is converted once).
MapRows(rows, F(_)) ==
    IF rows = <<>> THEN <<>>
    ELSE LET img == Tabulated([r \in Range(rows) |-> F(r)])
         IN  AsTuple([i \in 1..Len(rows) |-> img[rows[i]]])

\* df[name] = value(row): a new last column, or an existing one replaced.
SetColumn(df, name, F(_)) ==
    DataFrame(IF name \in Range(df.columns) THEN df.columns
              ELSE Append(df.columns, name),
              MapRows(df.rows, LAMBDA r : (name :> F(r)) @@ r))

\* df.drop(names, axis=1) when every name is a column.
DropColumns(df, names) ==
    DataFrame(SelectSeq(df.columns, LAMBDA c : c \notin names),
              MapRows(df.rows,
                      LAMBDA r : Tabulated([c \in DOMAIN r \ names |-> r[c]])))

\* df[mask]: the rows that satisfy Keep, in their order.
FilterRows(df, Keep(_)) ==
    IF df.rows = <<>> THEN df
    ELSE LET kept == Tabulated([r \in Range(df.rows) |-> Keep(r)])
         IN  DataFrame(df.columns, SelectSeq(df.rows, LAMBDA r : kept[r]))

(***************************************************************************)
(* pandas.read_csv(text, sep='|') of a text with a header line: one row    *)
(* per line, keyed by the header's names; the fields of a numeric column   *)
(* become numbers, the others stay texts.                                  *)
(***************************************************************************)

FloatColumns == {"Latitude", "Longitude", "Depth/Km", "Magnitude"}

\* The value of a field of column c.
Convert(c, field) ==
    IF c \in FloatColumns THEN ParseFloat(field)
    ELSE IF c = "#EventID" THEN field.digits
    ELSE field

\* The row of a line: the j-th name of the header with the j-th field.
RECURSIVE ParseFrom(_, _, _)
ParseFrom(header, line, j) ==
    IF j = Len(header) THEN header[j] :> Convert(header[j], line[j])
    ELSE (header[j] :> Convert(header[j], line[j])) @@ ParseFrom(header, line, j + 1)

ParseLine(header, line) == ParseFrom(header, line, 1)

read_csv(text) ==
    DataFrame(text.header, MapRows(text.lines, LAMBDA l : ParseLine(text.header, l)))

\* pandas.to_datetime of a time text: nanoseconds since 1970-01-01T00:00:00.
to_datetime(t) == t.second * 1000000000 + t.nano

\* DateTime.astype(int) // 10**9 (Python's // rounds down, as \div does).
\* The seconds with the quotient rounded toward zero in place of floored.
TimestampOf_truncating(ns) == Sign(ns) * (Abs(ns) \div 1000000000)

TimestampOf(ns) == ns \div 1000000000

DroppedColumns ==
    {"Author", "Time", "Catalog", "Contributor", "ContributorID", "MagAuthor"}

\* gpxpy.geo.haversine_distance, tabulated in meters for the points of the
\* model (coordinates in tenths of a degree): 2 R asin(sqrt(sin^2(dlat/2) +
\* sin^2(dlon/2) cos(lat1) cos(lat2))) with R = 6378137 m.
HaversineMeters ==
    <<425, 135, 425, 135>> :> 0      @@
    <<420, 130, 425, 135>> :> 69249  @@
    <<435, 135, 425, 135>> :> 111319 @@
    <<425, 140, 425, 135>> :> 41037  @@
    <<425, 135, 420, 130>> :> 69249  @@
    <<420, 130, 420, 130>> :> 0      @@
    <<435, 135, 420, 130>> :> 171908 @@
    <<425, 140, 420, 130>> :> 99437

\* The integer 10 x for a float x that is a whole number of tenths.
Tenths(x) ==
    IF x.e >= 0 THEN x.m * 10 * Pow2(x.e) ELSE (x.m * 10) \div Pow2(-x.e)

haversine_distance(lat1, lon1, lat2, lon2) ==
    FromInt(HaversineMeters[<<Tenths(lat1), Tenths(lon1), Tenths(lat2), Tenths(lon2)>>])

(***************************************************************************)
(* The class attributes and the pieces of query().                         *)
(***************************************************************************)

\* Some big earthquakes near LNGS.
quakes ==
    "2009"         :> <<"2009-04-05T00:00:00", "2009-04-12T00:00:00">> @@
    "august_2016"  :> <<"2016-08-23T00:00:00", "2016-09-07T00:00:00">> @@
    "october_2016" :> <<"2016-10-01T00:00:00", "2016-10-30T00:00:00">> @@
    "january_2017" :> <<"2017-01-18T00:00:00", "2017-01-25T00:00:00">>

\* now_utc.strftime('%Y-%m-%dT%H:%M:%S'): the instant's text to the second.
strftime(now) == now.second

\* The end date sent as it was given.
ResolveEnd_verbatim(end_date, now) == end_date

\* Lines 52-54: an end date of 'now' becomes the text of the current instant.
ResolveEnd(end_date, now) == IF end_date = "now" THEN strftime(now) ELSE end_date

\* The parameters of the request.
Payload(start_date, end_date, min_mag, max_mag, lats, lons) ==
    [starttime  |-> start_date,
     endtime    |-> end_date,
     minmag     |-> min_mag,
     maxmag     |-> max_mag,
     mindepth   |-> -10,
     maxdepth   |-> 1000,
     minlat     |-> Format3(lats[1]),
     maxlat     |-> Format3(lats[2]),
     minlon     |-> Format3(lons[1]),
     maxlon     |-> Format3(lons[2]),
     minversion |-> 100,
     orderby    |-> "time-asc",
     format     |-> "text",
     limit      |-> 10000]

\* A call of a logger method.
LogCall(level, msg, args) == [level |-> level, msg |-> msg, args |-> args]

\* How a call ended: it returned None, returned the data frame that
\* self.data holds (line 117), or raised.
ReturnedNone == [kind |-> "None"]

ReturnedData == [kind |-> "DataFrame", value |-> "self.data"]

Raised(exc) == [kind |-> "raised", exc |-> exc]

\* An attribute that was never assigned, and one that holds a value.
Unset == [set |-> FALSE]

Holding(v) == [set |-> TRUE, value |-> v]

\* The limit test with > in place of >=.
LimitReached_above(df) == Len(df.rows) > 10000

\* len(self.data) >= 10000 (line 85).
LimitReached(df) == Len(df.rows) >= 10000

\* Lines 90 and 92: the DateTime and Timestamp columns.
WithDateTime(df) == SetColumn(df, "DateTime", LAMBDA r : to_datetime(r["Time"]))

WithTimestamp(df) == SetColumn(df, "Timestamp", LAMBDA r : TimestampOf(r["DateTime"]))

\* Lines 103-110: the Distance column.
WithDistance(df, lat, lon) ==
    SetColumn(df, "Distance",
              LAMBDA r : haversine_distance(r["Latitude"], r["Longitude"], lat, lon))

\* The cut on the radius with <= in place of <.
CutOnRadius_inclusive(df, rad) == FilterRows(df, LAMBDA r : ~FLess(rad, r["Distance"]))

\* Line 113: the cut on the radius.
CutOnRadius(df, rad) == FilterRows(df, LAMBDA r : FLess(r["Distance"], rad))

(***************************************************************************)
(* The 200 branch of query() (lines 83-117) on the reply's text, for an    *)
(* instance centred at (lat, lon) with radius rad: the value left in       *)
(* self.data, the logger calls made, the steps carried out and the way the *)
(* call ends.  A column the code reads or drops that the table lacks       *)
(* raises KeyError at that line, self.data keeping what was last assigned  *)
(* to it.                                                                  *)
(***************************************************************************)
Process(text, lat, lon, rad) ==
    LET parsed  == read_csv(text)
        cols    == Range(parsed.columns)
        warn    == IF LimitReached(parsed)
                   THEN <<LogCall("WARNING", "Query limit reached! Select a smaller time/radius/magnitude range.", <<>>)>>
                   ELSE <<>>
    IN  IF "Time" \notin cols
        THEN [data |-> parsed, logger |-> warn, steps |-> <<"read_csv">>,
              outcome |-> Raised("KeyError")]
        ELSE LET stamped == WithTimestamp(WithDateTime(parsed))
             IN  IF ~(DroppedColumns \subseteq cols)
                 THEN [data |-> stamped, logger |-> warn,
                       steps |-> <<"read_csv", "to_datetime">>,
                       outcome |-> Raised("KeyError")]
                 ELSE LET cleaned == DropColumns(stamped, DroppedColumns)
                      IN  IF ~({"Latitude", "Longitude"} \subseteq cols)
                          THEN [data |-> cleaned, logger |-> warn,
                                steps |-> <<"read_csv", "to_datetime", "drop">>,
                                outcome |-> Raised("KeyError")]
                          ELSE LET cut == CutOnRadius(WithDistance(cleaned, lat, lon), rad)
                               IN  [data    |-> cut,
                                    logger  |-> Append(warn, LogCall("INFO", "Queried %d events", <<Len(cut.rows)>>)),
                                    steps   |-> <<"read_csv", "to_datetime", "drop", "add_distance", "cut">>,
                                    outcome |-> ReturnedData]

(***************************************************************************)
(* The service and the inputs of the model.                                *)
(***************************************************************************)

\* The header line of the service's text format.
FullHeader ==
    <<"#EventID", "Time", "Latitude", "Longitude", "Depth/Km", "Author",
      "Catalog", "Contributor", "ContributorID", "MagType", "Magnitude",
      "MagAuthor", "EventLocationName">>

\* A header without one of its columns.
Without(header, c) == SelectSeq(header, LAMBDA x : x # c)

\* An event of the catalogue: its field under each column.
Event(id, time, lat, lon) ==
    Tabulated([c \in Range(FullHeader) |->
        CASE c = "#EventID"  -> Dec(id, 0)
          [] c = "Time"      -> time
          [] c = "Latitude"  -> lat
          [] c = "Longitude" -> lon
          [] c = "Depth/Km"  -> Dec(95, 1)
          [] c = "Magnitude" -> Dec(25, 1)
          [] c = "MagType"   -> "ML"
          [] c = "EventLocationName" -> "L'Aquila"
          [] OTHER           -> "INGV"])

\* The text table with the given header and one line per event.
TextTable(header, events) ==
    [header |-> header,
     lines  |-> MapRows(events, LAMBDA ev : AsTuple([j \in 1..Len(header) |-> ev[header[j]]]))]

\* A text that is no table.
Plain(str) == [plain |-> str]

\* What requests.get does: it raises, or returns a response.
TransportError(exc) == [kind |-> "error", exc |-> exc]

Response(status, text) == [kind |-> "response", status_code |-> status, text |-> text]

\* Two events of the catalogue, one at each centre of the model.
EventA(time) == Event(1, time, Dec(425, 1), Dec(135, 1))

EventB(time) == Event(2, time, Dec(420, 1), Dec(130, 1))

Events == {EventA(TimeText(1, 400000000)), EventB(TimeText(-2, 500000000))}

\* Longest table of the specification Spec.
MaxRows == 2

RECURSIVE SeqsUpTo(_, _)
SeqsUpTo(S, n) ==
    IF n = 0 THEN {<<>>}
    ELSE LET shorter == SeqsUpTo(S, n - 1)
         IN  shorter \cup {Append(q, x) : q \in {t \in shorter : Len(t) = n - 1}, x \in S}

\* Headers that lack a column the code reads or drops.
BrokenHeaders ==
    {Without(FullHeader, "Time"), Without(FullHeader, "MagAuthor"),
     Without(FullHeader, "Latitude")}

\* Replies without a table: requests.get raises, or the status is not 200.
Failures ==
    {TransportError("ConnectionError"), Response(204, Plain("")),
     Response(400, Plain("Bad Request"))}

\* The service answers an empty result with 204 and no text, so a 200 text
\* has at least one line.
Replies ==
    Failures
    \cup {Response(200, TextTable(FullHeader, es)) : es \in SeqsUpTo(Events, MaxRows) \ {<<>>}}
    \cup {Response(200, TextTable(h, <<e>>)) : h \in BrokenHeaders, e \in Events}

\* The arguments of the calls: the defaults of query() (line 48) and others.
DefaultMagnitudes == {<<2, 10>>}

Magnitudes == DefaultMagnitudes \cup {<<4, 6>>}

StartDates == {"2017-01-18T00:00:00", "now"}

EndDates == {"now", "2017-01-25T00:00:00"}

Names == {"2009", "january_2017", "not_a_real_event"}

\* Instants the clock may show.
Clock ==
    {[second |-> "2017-01-22T10:00:00", microsecond |-> 250000],
     [second |-> "2017-01-22T10:00:01", microsecond |-> 0]}

Noon == {[second |-> "2017-01-22T12:00:00", microsecond |-> 0]}

\* Centres (latitude, longitude) and radii of the instances: 50 km, the
\* distance between the two centres, and the default 80 km.
Centres == {<<FromFix(85, 1), FromFix(27, 1)>>, <<FromInt(42), FromInt(13)>>}

Radii == {FromInt(50000), FromInt(69249), FromInt(80000)}

\* The replies of the specification SpecArgs.
ArgsReplies ==
    {TransportError("ConnectionError"), Response(400, Plain("Bad Request")),
     Response(200, TextTable(FullHeader, <<EventA(TimeText(1, 400000000)),
                                           EventB(TimeText(-2, 500000000))>>))}

\* The replies of the specification SpecLimit: tables of n lines, the first
\* for one event and the others for another, n around the limit of 10000.
Filled(first, rest, n) == [i \in 1..n |-> IF i = 1 THEN first ELSE rest]

LimitSizes == {1, 2, 10000 - 1, 10000, 10000 + 1}

LimitReplies ==
    {Response(200, TextTable(FullHeader, Filled(first, rest, n))) :
        first \in Events, rest \in Events, n \in LimitSizes}

\* The replies of the specification SpecTime: one event at an instant from
\* two seconds before the epoch to two seconds after it.
Seconds == -2..1

Nanos == {0, 1, 400000000, 500000000, 999999999}

TimeReplies ==
    {Response(200, TextTable(FullHeader, <<e>>)) :
        e \in {EventA(TimeText(sec, f)) : sec \in Seconds, f \in Nanos}
              \cup {EventB(TimeText(sec, f)) : sec \in Seconds, f \in Nanos}}

\* The configurations of the specification SpecBox: latitudes up to the last
\* float before the poles, and radii from 2^-40 m to 1000 km.
BoxLatitudes == {FromFix(-1439, 4), FromFix(-85, 1), FZero, FromFix(85, 1), FromFix(1439, 4)}

BoxLongitudes == {FromInt(-180), FZero, FromFix(27, 1), FromInt(180)}

BoxRadii == {FromFix(1, 40), FromInt(50000), FromInt(80000), FromInt(1000000)}

(***************************************************************************)
(* The operations.                                                         *)
(***************************************************************************)

\* No request was issued by the call.
NoRequest == [kind |-> "none"]

\* The state after QuakeQuery(latitude=centre[1], longitude=centre[2], radius=rad).
Constructed(centre, rad) ==
    /\ latitude = centre[1]
    /\ longitude = centre[2]
    /\ radius = rad
    /\ lat_range = Holding(LatRange(centre[1], rad))
    /\ lon_range = Holding(LonRange(centre[1], centre[2], rad))
    /\ data = Unset
    /\ logger = <<LogCall("INFO", "Initialized at %.2f lat, %.2f lon with %.0fm radius",
                          <<centre[1], centre[2], rad>>)>>
    /\ sent = <<>>
    /\ received = NoRequest
    /\ steps = <<>>
    /\ call = [op |-> "__init__",
               args |-> [latitude |-> centre[1], longitude |-> centre[2], radius |-> rad]]
    /\ outcome = ReturnedNone
    /\ last_returned = Unset

Init == \E centre \in Centres, rad \in Radii : Constructed(centre, rad)

InitBox ==
    \E lat \in BoxLatitudes, lon \in BoxLongitudes, rad \in BoxRadii :
        Constructed(<<lat, lon>>, rad)

\* calc_bounding_box() (lines 42-46), called on the constructed instance.
calc_bounding_box ==
    /\ lat_range' = Holding(LatRange(latitude, radius))
    /\ lon_range' = Holding(LonRange(latitude, longitude, radius))
    /\ call' = [op |-> "calc_bounding_box", args |-> [self |-> "self"]]
    /\ logger' = <<>>
    /\ sent' = <<>>
    /\ received' = NoRequest
    /\ steps' = <<>>
    /\ outcome' = ReturnedNone
    /\ UNCHANGED <<latitude, longitude, radius, data, last_returned>>

\* A status other than 200 raising HTTPError in place of returning.
Aborted_raising(reply, old_data, old_returned) ==
    [logger |-> <<LogCall("ERROR", "Something went wrong:\n", <<reply.text>>)>>,
     steps |-> <<>>, outcome |-> Raised("HTTPError"),
     data |-> old_data, last_returned |-> old_returned]

\* Lines 80-81: a status other than 200 is logged as an error (the text is
\* passed as an argument of a message without a placeholder) and the
\* method ends, returning None.
Aborted(reply, old_data, old_returned) ==
    [logger |-> <<LogCall("ERROR", "Something went wrong:\n", <<reply.text>>)>>,
     steps |-> <<>>, outcome |-> ReturnedNone,
     data |-> old_data, last_returned |-> old_returned]

\* What the reply makes of the call (lines 75-117): the logger calls, the
\* steps, the outcome, and the new values of self.data and of the last
\* returned result.
Handle(reply, lat, lon, rad, old_data, old_returned) ==
    IF reply.kind = "error"
    THEN \* lines 77-78, then line 80 reads r, which was never bound
         [logger |-> <<LogCall("ERROR", reply.exc, <<>>)>>, steps |-> <<>>,
          outcome |-> Raised("UnboundLocalError"),
          data |-> old_data, last_returned |-> old_returned]
    ELSE IF reply.status_code # 200
    THEN Aborted(reply, old_data, old_returned)
    ELSE LET p == Process(reply.text, lat, lon, rad)
         IN  [logger |-> p.logger, steps |-> p.steps, outcome |-> p.outcome,
              data |-> Holding(p.data),
              last_returned |-> IF p.outcome.kind = "DataFrame"
                                THEN Holding(p.data)
                                ELSE old_returned]

\* The body of query() (lines 52-117), as the call named by who.
QueryBody(who, start_date, end_date, min_mag, max_mag, now, reply) ==
    \E end \in {ResolveEnd(end_date, now)},
       h \in {Handle(reply, latitude, longitude, radius, data, last_returned)} :
        /\ call' = who
        /\ sent' = <<Payload(start_date, end, min_mag, max_mag,
                             lat_range.value, lon_range.value)>>
        /\ received' = reply
        /\ logger' = h.logger
        /\ steps' = h.steps
        /\ outcome' = h.outcome
        /\ data' = h.data
        /\ last_returned' = h.last_returned
        /\ UNCHANGED <<latitude, longitude, radius, lat_range, lon_range>>

query(start_date, end_date, min_mag, max_mag, now, reply) ==
    QueryBody([op |-> "query",
               args |-> [start_date |-> start_date, end_date |-> end_date,
                         min_mag |-> min_mag, max_mag |-> max_mag]],
              start_date, end_date, min_mag, max_mag, now, reply)

PredefinedCall(name, min_mag, max_mag) ==
    [op |-> "query_predefined",
     args |-> [name |-> name, min_mag |-> min_mag, max_mag |-> max_mag]]

\* query_predefined() passing the default magnitudes in place of its own.
query_predefined_defaults(name, min_mag, max_mag, now, reply) ==
    IF name \in DOMAIN quakes
    THEN QueryBody(PredefinedCall(name, min_mag, max_mag),
                   quakes[name][1], quakes[name][2], 2, 10, now, reply)
    ELSE /\ call' = PredefinedCall(name, min_mag, max_mag)
         /\ logger' = <<LogCall("ERROR", "%s not in list of predefined earthquakes", <<name>>)>>
         /\ sent' = <<>>
         /\ received' = NoRequest
         /\ steps' = <<>>
         /\ outcome' = ReturnedNone
         /\ UNCHANGED <<latitude, longitude, radius, lat_range, lon_range,
                        data, last_returned>>

query_predefined(name, min_mag, max_mag, now, reply) ==
    IF name \in DOMAIN quakes
    THEN QueryBody(PredefinedCall(name, min_mag, max_mag),
                   quakes[name][1], quakes[name][2], min_mag, max_mag, now, reply)
    ELSE /\ call' = PredefinedCall(name, min_mag, max_mag)
         /\ logger' = <<LogCall("ERROR", "%s not in list of predefined earthquakes", <<name>>)>>
         /\ sent' = <<>>
         /\ received' = NoRequest
         /\ steps' = <<>>
         /\ outcome' = ReturnedNone
         /\ UNCHANGED <<latitude, longitude, radius, lat_range, lon_range,
                        data, last_returned>>

\* A call of query(), and one of query_predefined(), with arguments, clock
\* and reply from the given sets.
QueryStep(starts, ends, mags, instants, replies) ==
    \E s \in starts, e \in ends, mag \in mags, now \in instants, reply \in replies :
        query(s, e, mag[1], mag[2], now, reply)

PredefinedStep(names, mags, instants, replies) ==
    \E name \in names, mag \in mags, now \in instants, reply \in replies :
        query_predefined(name, mag[1], mag[2], now, reply)

\* Calls with the default arguments, under every reply.
Next ==
    \/ QueryStep({"2017-01-18T00:00:00"}, {"now"}, DefaultMagnitudes, Noon, Replies)
    \/ PredefinedStep({"2009", "not_a_real_event"}, DefaultMagnitudes, Noon, Replies)

Spec == Init /\ [][Next]_vars

\* Calls with every argument, under three replies.
NextArgs ==
    \/ QueryStep(StartDates, EndDates, Magnitudes, Clock, ArgsReplies)
    \/ PredefinedStep(Names, Magnitudes, Clock, ArgsReplies)

SpecArgs == Init /\ [][NextArgs]_vars

\* Calls answered with tables around the limit.
NextLimit ==
    QueryStep({"2017-01-18T00:00:00"}, {"now"}, DefaultMagnitudes, Noon, LimitReplies)

SpecLimit == Init /\ [][NextLimit]_vars

\* Calls answered with one event at an instant around the epoch.
NextTime ==
    QueryStep({"2017-01-18T00:00:00"}, {"now"}, DefaultMagnitudes, Noon, TimeReplies)

SpecTime == Init /\ [][NextTime]_vars

\* Instances of every configuration, and calls of calc_bounding_box().
NextBox == calc_bounding_box

SpecBox == InitBox /\ [][NextBox]_vars

(***************************************************************************)
(* The properties.                                                         *)
(***************************************************************************)

\* The logger was called at the given level during the last operation.
Logged(level) == \E i \in 1..Len(logger) : logger[i].level = level

AllSteps == <<"read_csv", "to_datetime", "drop", "add_distance", "cut">>

\* The last call received a response with status 200, whose text is a table.
ReceivedTable == received.kind = "response" /\ received.status_code = 200

\* C1: when requests.get raises, the error is logged, nothing is parsed and
\* the call returns None, no exception reaching the caller.  (Spec)
TransportErrorReturnsNothing ==
    received.kind = "error" =>
        /\ Logged("ERROR")
        /\ steps = <<>>
        /\ outcome = ReturnedNone

\* C2: when the status is not 200, an error is logged, the text is not
\* parsed, no row is cut on the radius, and the call returns None, raising
\* nothing.  (Spec)
BadStatusAborts ==
    (received.kind = "response" /\ received.status_code # 200) =>
        /\ Logged("ERROR")
        /\ steps = <<>>
        /\ outcome = ReturnedNone

BadStatusSeen ==
    /\ received.kind = "response"
    /\ received.status_code = 400
    /\ Logged("ERROR")
    /\ outcome = ReturnedNone

\* C3: query_predefined() with a name outside the table sends no request,
\* logs an error and returns None; with a name of the table it sends the
\* request for that entry's start and end and the magnitudes it was given,
\* and ends as query() ends on the reply.  (SpecArgs)
PredefinedDelegates ==
    call.op = "query_predefined" =>
        IF call.args.name \in DOMAIN quakes
        THEN /\ Len(sent) = 1
             /\ sent[1].starttime = quakes[call.args.name][1]
             /\ sent[1].endtime = quakes[call.args.name][2]
             /\ sent[1].minmag = call.args.min_mag
             /\ sent[1].maxmag = call.args.max_mag
             /\ outcome = Handle(received, latitude, longitude, radius,
                                 data, last_returned).outcome
        ELSE /\ sent = <<>>
             /\ received = NoRequest
             /\ Logged("ERROR")
             /\ outcome = ReturnedNone

PredefinedQueried ==
    /\ call.op = "query_predefined"
    /\ call.args.name = "january_2017"
    /\ call.args.min_mag = 4
    /\ Len(sent) = 1
    /\ sent[1].starttime = "2017-01-18T00:00:00"
    /\ sent[1].minmag = 4
    /\ outcome.kind = "DataFrame"

\* C4: the rows a call returns are the parsed rows whose distance to the
\* centre is less than the radius, in the order of the text; a row at the
\* radius or beyond it is not returned.  (Spec)
ReturnedRowsAreThoseInside ==
    outcome.kind = "DataFrame" =>
        LET parsed == WithDistance(read_csv(received.text), latitude, longitude).rows
            inside == SelectSeq(parsed, LAMBDA r : FLess(r["Distance"], radius))
            got    == data.value.rows
            Seen(r) == <<r["#EventID"], r["Latitude"], r["Longitude"], r["Distance"]>>
        IN  /\ Len(got) = Len(inside)
            /\ \A i \in 1..Len(got) :
                /\ Seen(got[i]) = Seen(inside[i])
                /\ FLess(got[i]["Distance"], radius)

RowAtRadiusDropped ==
    /\ outcome.kind = "DataFrame"
    /\ radius = FromInt(69249)
    /\ Len(received.text.lines) = 2
    /\ Len(data.value.rows) = 1
    /\ \E i \in 1..2 :
          haversine_distance(ParseFloat(received.text.lines[i][3]),
                             ParseFloat(received.text.lines[i][4]),
                             latitude, longitude) = radius

\* C5: a table of 10000 lines or more is answered with a warning and is
\* still processed to the end, the rows inside the radius being returned;
\* a shorter table brings no warning; the lines are counted before the cut
\* on the radius.  (SpecLimit)
WarningAtLimit ==
    ReceivedTable =>
        /\ Logged("WARNING") <=> Len(received.text.lines) >= 10000
        /\ steps = AllSteps
        /\ outcome.kind = "DataFrame"
        /\ Len(data.value.rows) =
              Len(FilterRows(read_csv(received.text),
                             LAMBDA r : FLess(haversine_distance(r["Latitude"], r["Longitude"],
                                                                 latitude, longitude),
                                              radius)).rows)

WarnedAtLimit ==
    /\ ReceivedTable
    /\ Len(received.text.lines) = 10000
    /\ Logged("WARNING")
    /\ outcome.kind = "DataFrame"
    /\ Len(data.value.rows) = 10000 - 1

\* C6: self.data is what the most recent call that returned a result
\* returned, last_returned (and is unset before any did).  (Spec)
DataIsLastReturned == data = last_returned

\* C7, as stated: the request never carries the literal "now", neither as
\* starttime nor as endtime.  (SpecArgs)
NowNeverSent ==
    \A i \in 1..Len(sent) : sent[i].starttime # "now" /\ sent[i].endtime # "now"

\* C7, amended: query() resolves "now" for the end date only: endtime is
\* never "now" (it is the text of the current instant to the second when
\* end_date is "now", and end_date otherwise), and starttime is start_date
\* as given, the literal "now" included.  (SpecArgs)
OnlyEndResolved ==
    call.op = "query" =>
        /\ Len(sent) = 1
        /\ sent[1].starttime = call.args.start_date
        /\ sent[1].endtime # "now"
        /\ IF call.args.end_date = "now"
           THEN sent[1].endtime \in {now.second : now \in Clock}
           ELSE sent[1].endtime = call.args.end_date

NowSentAsStart ==
    /\ call.op = "query"
    /\ call.args.start_date = "now"
    /\ call.args.end_date = "now"
    /\ sent[1].starttime = "now"
    /\ sent[1].endtime = "2017-01-22T10:00:00"

\* The bounding box holds the centre strictly inside on both axes, and both
\* half-widths are positive.
CentreStrictlyInside ==
    /\ DeltaLat(radius).m > 0
    /\ DeltaLon(latitude, radius).m > 0
    /\ FLess(lat_range.value[1], latitude)
    /\ FLess(latitude, lat_range.value[2])
    /\ FLess(lon_range.value[1], longitude)
    /\ FLess(longitude, lon_range.value[2])

ValidConfiguration ==
    /\ radius.m > 0
    /\ FLess(FromInt(-90), latitude)
    /\ FLess(latitude, FromInt(90))

\* C8, as stated: with radius > 0 and -90 < latitude < 90 the bounding box
\* holds the centre strictly inside on both axes.  (SpecBox)
BoxStrictlyContainsCentre == ValidConfiguration => CentreStrictlyInside

\* C8, amended: with radius > 0 and -90 < latitude < 90 the bounding box
\* holds the centre strictly inside on both axes provided each half-width
\* is at least the spacing of the floats at the coordinate it is added to
\* and subtracted from.  (SpecBox)
BoxContainsCentreWhenNotAbsorbed ==
    (/\ ValidConfiguration
     /\ ~FLess(DeltaLat(radius), Ulp(latitude))
     /\ ~FLess(DeltaLon(latitude, radius), Ulp(longitude))) => CentreStrictlyInside

BoxNearPole ==
    /\ call.op = "calc_bounding_box"
    /\ latitude = FromFix(1439, 4)
    /\ longitude = FromInt(180)
    /\ radius = FromInt(80000)
    /\ CentreStrictlyInside

\* The rows of self.data that carry a Timestamp.
StampedRows ==
    IF data.set
    THEN SelectSeq(data.value.rows, LAMBDA r : "Timestamp" \in DOMAIN r)
    ELSE <<>>

\* C9, as stated: Timestamp is DateTime's nanoseconds divided by 10^9 with
\* the quotient truncated, and turned back into a time it is DateTime to
\* the second, before the epoch too.  (SpecTime)
TimestampTruncates ==
    \A i \in 1..Len(StampedRows) :
        LET r == StampedRows[i]
        IN  /\ r["Timestamp"] = Sign(r["DateTime"]) * (Abs(r["DateTime"]) \div 1000000000)
            /\ r["Timestamp"] * 1000000000 <= r["DateTime"]
            /\ r["DateTime"] < (r["Timestamp"] + 1) * 1000000000

\* C9, amended: Timestamp is DateTime's nanoseconds divided by 10^9 with the
\* quotient floored (rounded toward minus infinity, which is truncation
\* only from the epoch on), and turned back into a time it is DateTime to
\* the second, the second written in the Time text, before the epoch too.
\* (SpecTime)
TimestampFloors ==
    /\ \A i \in 1..Len(StampedRows) :
        LET r == StampedRows[i]
        IN  /\ r["Timestamp"] * 1000000000 <= r["DateTime"]
            /\ r["DateTime"] < (r["Timestamp"] + 1) * 1000000000
    /\ (ReceivedTable /\ Len(StampedRows) = 1) =>
          StampedRows[1]["Timestamp"] = received.text.lines[1][2].second

StampedBeforeEpoch ==
    \E i \in 1..Len(StampedRows) :
        /\ StampedRows[i]["DateTime"] = -1500000000
        /\ StampedRows[i]["Timestamp"] = -2

\* C10: between calls every row of self.data has a Distance, and it is less
\* than the radius.  (Spec)
RetainedRowsAreInside ==
    data.set =>
        \A i \in 1..Len(data.value.rows) :
            /\ "Distance" \in DOMAIN data.value.rows[i]
            /\ FLess(data.value.rows[i]["Distance"], radius)

====
